---- MODULE Spec2Model ----
(***************************************************************************)
(* The products listing endpoint of the API gateway                        *)
(* (src/api-gateway/main.py, get_products): a read-through cache in front  *)
(* of the inventory store, with synthetic data when the store fails.       *)
(*                                                                         *)
(* Several requests run concurrently.  A request is suspended only at the  *)
(* awaits of the store step, so it is modelled by two steps: Start (entry, *)
(* cache read, up to the first await) and StoreStep (acquire, fetch, row   *)
(* mapping, cache write-back, release).  Nothing a request does after its  *)
(* fetch returns reads or writes shared state at a later await, so the     *)
(* store step is one step.                                                 *)
(* Redis and PostgreSQL are failing collaborators: each of their calls     *)
(* succeeds or raises, chosen nondeterministically.                        *)
(***************************************************************************)
EXTENDS Integers, Sequences, FiniteSets, TLC

\* ------------------------------------------------------------------ bounds
MaxRows == 2
MaxLimit == 6

\* ------------------------------------------------------- program constants
CacheTTL == 300
MockStop == 6

\* Two requests in flight: the claims are about one request, or about one
\* request next to another.
Requests == {"r1", "r2"}

\* The limits a caller sends: the query parameter is any integer.
Limits == {0, 1, MaxLimit}

Min(a, b) == IF a < b THEN a ELSE b

\* ------------------------------------------------------------------- store
\* A row of inventory.products: prices are in cents; the row with an even id
\* has price 0, the falsy price of `if p["price"]`.
Row(i) ==
    [id |-> i, sku |-> "SKU-" \o ToString(i), name |-> "Product " \o ToString(i),
     stock_level |-> 10 * i, price |-> IF i % 2 = 1 THEN 1000 * i ELSE 0]

ProductRows == {Row(i) : i \in 1..MaxRows}

\* The table's contents: the rows inserted so far, in insertion order (the
\* query has no ORDER BY); the row with the highest id was inserted first.
Inserted == [i \in 1..MaxRows |-> Row(MaxRows + 1 - i)]

StoreStates == {SubSeq(Inserted, 1, n) : n \in 0..MaxRows}

\* SELECT ... LIMIT $1: the first `lim` rows in the store's order.
FetchRows(rows, lim) == SubSeq(rows, 1, Min(lim, Len(rows)))

\* ------------------------------------------------------- product mapping
Truthy(price) == price # 0

\* float(p["price"]) * 0.9 (prices in cents, multiples of 10)
Discounted(price) == (price * 9) \div 10

MapRow(p) ==
    [id |-> ToString(p.id), sku |-> p.sku, name |-> p.name,
     stock_level |-> p.stock_level,
     price |-> IF Truthy(p.price) THEN p.price ELSE 0,
     discounted_price |-> IF Truthy(p.price) THEN Discounted(p.price) ELSE 0]

\* Faulty variant: the rows are mapped in reverse order.
ProductListReversed(rows) ==
    [i \in 1..Len(rows) |-> MapRow(rows[Len(rows) + 1 - i])]

ProductList(rows) == [i \in 1..Len(rows) |-> MapRow(rows[i])]

\* ---------------------------------------------------------- synthetic data
\* The values the random generator can draw for one response: stock in
\* 0..100, price in 10.00..1000.00, discounted price in 9.00..900.00, drawn
\* independently of the price.
RandomDraws ==
    {[stock |-> 0, price |-> 1000, disc |-> 90000],
     [stock |-> 100, price |-> 100000, disc |-> 900]}

Pad3(i) == IF i < 10 THEN "00" \o ToString(i)
           ELSE IF i < 100 THEN "0" \o ToString(i) ELSE ToString(i)

MockRecord(i, rnd) ==
    [id |-> "mock-" \o ToString(i), sku |-> "MOCK-" \o Pad3(i),
     name |-> "Mock Product " \o ToString(i),
     stock_level |-> rnd.stock, price |-> rnd.price,
     discounted_price |-> rnd.disc]

\* Faulty variant: range(1, min(limit, 6)), one record short.
MockProductsShort(lim, rnd) ==
    [i \in 1..(Min(lim, MockStop) - 1) |-> MockRecord(i, rnd)]

\* for i in range(1, min(limit + 1, 6))
MockProducts(lim, rnd) ==
    [i \in 1..(Min(lim + 1, MockStop) - 1) |-> MockRecord(i, rnd)]

\* ------------------------------------------------------------ JSON texts
\* A cached string is a JSON array text (its objects in order, each a
\* sequence of members), a non-empty text that is no JSON, or the empty
\* string.
FieldOrder == <<"id", "sku", "name", "stock_level", "price", "discounted_price">>

StringFields == {"id", "sku", "name"}

Member(k, v) ==
    IF k \in StringFields
    THEN [key |-> k, tag |-> "str", str |-> v, num |-> 0]
    ELSE [key |-> k, tag |-> "num", str |-> "", num |-> v]

\* Faulty variant: the derived field is not serialized.
EncodeObjectWithoutDiscount(rec) ==
    [j \in 1..(Len(FieldOrder) - 1) |-> Member(FieldOrder[j], rec[FieldOrder[j]])]

EncodeObject(rec) == [j \in 1..Len(FieldOrder) |-> Member(FieldOrder[j], rec[FieldOrder[j]])]

json_dumps(list) ==
    [kind |-> "array", items |-> [i \in 1..Len(list) |-> EncodeObject(list[i])]]

DecodeObject(obj) ==
    [k \in {obj[j].key : j \in DOMAIN obj} |->
        LET m == obj[CHOOSE j \in DOMAIN obj : obj[j].key = k]
        IN  IF m.tag = "str" THEN m.str ELSE m.num]

\* Faulty variant: a lenient parser that takes any text.
JsonParsesAnything(text) == TRUE

\* json.loads raises on a text that is no JSON.
JsonParses(text) == text.kind = "array"

json_loads(text) == [i \in 1..Len(text.items) |-> DecodeObject(text.items[i])]

GarbageText == [kind |-> "garbage", items |-> <<>>]
EmptyText == [kind |-> "empty", items |-> <<>>]

\* ------------------------------------------------------------------ cache
CacheKey(lim) == "products:list:" \o ToString(lim)

Keys == {CacheKey(l) : l \in Limits}

NoEntry == [present |-> FALSE, value |-> EmptyText, ttl |-> 0]

Entry(text, ttl) == [present |-> TRUE, value |-> text, ttl |-> ttl]

\* `if cached_data:` - None and the empty string are both a miss.
HasData(entry) == entry.present /\ entry.value.kind # "empty"

setex(c, key, ttl, text) == [c EXCEPT ![key] = Entry(text, ttl)]

\* ------------------------------------------------------------ the handler
\* Every handler of get_products is `except Exception`, which absorbs each
\* of the errors the collaborators raise.
ExceptionKinds ==
    {"CacheReadError", "JSONDecodeError", "CacheWriteError", "StoreError"}

\* Faulty variant: `except redis.RedisError` in place of `except Exception`.
AbsorbsRedisErrors(exc) == exc \in {"CacheReadError", "CacheWriteError"}

Absorbs(exc) == exc \in ExceptionKinds

InitialResult == [products |-> <<>>, source |-> "database", cached |-> FALSE]

\* Faulty variant: the hit does not set the cached flag.
HitResultWithoutFlag(res, records) ==
    [res EXCEPT !.products = records, !.source = "cache"]

HitResult(res, records) ==
    [res EXCEPT !.products = records, !.source = "cache", !.cached = TRUE]

MockResult(res, lim, rnd) ==
    [res EXCEPT !.products = MockProducts(lim, rnd), !.source = "mock"]

\* Faulty variant: cached data does not end the request (the early return is lost).
CacheReadOutcomeNoReturn(avail, readFails, entry) ==
    IF ~avail THEN "unavailable"
    ELSE IF readFails THEN "error"
    ELSE IF ~HasData(entry) THEN "miss"
    ELSE IF ~JsonParses(entry.value) THEN "corrupt"
    ELSE "miss"

\* How the cache step ends: the client is missing, the read raises, there is
\* no data, the data does not deserialize, or it is a hit.
CacheReadOutcome(avail, readFails, entry) ==
    IF ~avail THEN "unavailable"
    ELSE IF readFails THEN "error"
    ELSE IF ~HasData(entry) THEN "miss"
    ELSE IF ~JsonParses(entry.value) THEN "corrupt"
    ELSE "hit"

RaisedBy(outcome) ==
    IF outcome = "error" THEN "CacheReadError" ELSE "JSONDecodeError"

\* Faulty variant: the guard is inverted to `not product_list`.
WriteAttemptedWhenEmpty(avail, fetched, products) ==
    fetched /\ avail /\ products = <<>>

\* `if redis_client and product_list:` guards the setex
WriteAttempted(avail, fetched, products) == fetched /\ avail /\ products # <<>>

\* Faulty variant: the write-back runs after the except block, so that a failed
\* fetch writes the mock data of the result.
CacheAfterFetchAnyResult(c, avail, lim, fetched, products, writeOk) ==
    IF avail /\ writeOk
    THEN setex(c, CacheKey(lim), CacheTTL,
               json_dumps(IF fetched THEN products
                          ELSE MockProducts(lim, CHOOSE d \in RandomDraws : TRUE)))
    ELSE c

\* The cache after the store step of a request: the products of the result
\* are written back when the fetch succeeded, the list is not empty and
\* setex does not raise.
CacheAfterFetch(c, avail, lim, fetched, products, writeOk) ==
    IF WriteAttempted(avail, fetched, products) /\ writeOk
    THEN setex(c, CacheKey(lim), CacheTTL, json_dumps(products))
    ELSE c

\* How the store step ends: acquire or fetch raises, everything succeeds, or
\* the release of the connection raises after the rows were fetched.
StoreOutcomes == {"query_error", "ok", "release_error"}

\* ------------------------------------------------------------------ state
VARIABLES
    redis_client,   \* TRUE when the Redis client was created at startup
    db_pool,        \* TRUE when the PostgreSQL pool was created at startup
    store,          \* the rows of inventory.products, in the store's order
    cache,          \* Redis: key -> entry
    pc,             \* request -> "idle", "fetch", "done", "error"
    limit,          \* request -> its limit parameter
    result,         \* request -> its result dictionary
    obs,            \* request -> what its last step did (history)
    written,        \* key -> the list most recently written under it (history)
    prev            \* the last call the store served: its key and products (history)

vars == <<redis_client, db_pool, store, cache, pc, limit, result, obs, written, prev>>

NoList == [valid |-> FALSE, products |-> <<>>]

SomeList(products) == [valid |-> TRUE, products |-> products]

NoObs ==
    [read |-> "none", pred |-> FALSE, fetched |-> FALSE, released |-> FALSE,
     write |-> "none", attemptKey |-> "", attemptTtl |-> 0]

NoPrev == [valid |-> FALSE, key |-> "", products |-> <<>>]

Init ==
    /\ redis_client \in BOOLEAN
    /\ db_pool \in BOOLEAN
    /\ store \in StoreStates
    /\ cache = [k \in Keys |-> NoEntry]
    /\ pc = [r \in Requests |-> "idle"]
    /\ limit = [r \in Requests |-> 1]
    /\ result = [r \in Requests |-> InitialResult]
    /\ obs = [r \in Requests |-> NoObs]
    /\ written = [k \in Keys |-> NoList]
    /\ prev = NoPrev

\* A request enters get_products and runs up to its first await: the result
\* dictionary, the cache read, and the mock data when there is no pool.
Start(r) ==
    /\ pc[r] = "idle"
    /\ \E lim \in Limits, readFails \in BOOLEAN, rnd \in RandomDraws :
        LET entry == cache[CacheKey(lim)]
            outcome == CacheReadOutcome(redis_client, readFails, entry)
        IN  /\ limit' = [limit EXCEPT ![r] = lim]
            /\ obs' = [obs EXCEPT ![r] =
                         [NoObs EXCEPT !.read = outcome,
                                       !.pred = prev.valid /\ prev.key = CacheKey(lim)]]
            /\ IF outcome = "hit"
               THEN /\ result' = [result EXCEPT ![r] =
                                    HitResult(InitialResult, json_loads(entry.value))]
                    /\ pc' = [pc EXCEPT ![r] = "done"]
               ELSE IF outcome \in {"error", "corrupt"} /\ ~Absorbs(RaisedBy(outcome))
               THEN /\ result' = [result EXCEPT ![r] = InitialResult]
                    /\ pc' = [pc EXCEPT ![r] = "error"]
               ELSE IF db_pool
               THEN /\ result' = [result EXCEPT ![r] = InitialResult]
                    /\ pc' = [pc EXCEPT ![r] = "fetch"]
               ELSE /\ result' = [result EXCEPT ![r] = MockResult(InitialResult, lim, rnd)]
                    /\ pc' = [pc EXCEPT ![r] = "done"]
    /\ UNCHANGED <<redis_client, db_pool, store, cache, written, prev>>

\* The store step: acquire a connection and fetch; on success map the rows,
\* put them in the result and write them back to the cache, then release the
\* connection; when acquire, fetch or release raises, fall back to mock data.
StoreStep(r) ==
    /\ pc[r] = "fetch"
    /\ \E outcome \in StoreOutcomes, writeOk \in BOOLEAN, rnd \in RandomDraws :
        LET lim == limit[r]
            key == CacheKey(lim)
            fetched == outcome # "query_error"
            rows == IF fetched THEN FetchRows(store, lim) ELSE <<>>
            product_list == ProductList(rows)
            tried == WriteAttempted(redis_client, fetched, product_list)
            stored == [result[r] EXCEPT !.products = product_list]
            after == IF fetched THEN stored ELSE result[r]
            escapes == \/ tried /\ ~writeOk /\ ~Absorbs("CacheWriteError")
                       \/ outcome # "ok" /\ ~Absorbs("StoreError")
        IN  /\ cache' = CacheAfterFetch(cache, redis_client, lim, fetched,
                                        after.products, writeOk)
            /\ written' = IF tried /\ writeOk
                          THEN [written EXCEPT ![key] = SomeList(product_list)]
                          ELSE written
            /\ obs' = [obs EXCEPT ![r] =
                         [read |-> "none", pred |-> FALSE, fetched |-> fetched,
                          released |-> outcome = "ok",
                          write |-> IF ~tried THEN "none"
                                    ELSE IF writeOk THEN "ok" ELSE "failed",
                          attemptKey |-> IF tried THEN key ELSE "",
                          attemptTtl |-> IF tried THEN CacheTTL ELSE 0]]
            /\ result' = [result EXCEPT ![r] =
                            IF outcome = "ok" \/ escapes THEN after
                            ELSE MockResult(after, lim, rnd)]
            /\ pc' = [pc EXCEPT ![r] = IF escapes THEN "error" ELSE "done"]
            /\ prev' = IF outcome = "ok" /\ ~escapes /\ obs[r].read = "miss"
                          /\ ~(tried /\ ~writeOk)
                       THEN [valid |-> TRUE, key |-> key, products |-> product_list]
                       ELSE prev
    /\ UNCHANGED <<redis_client, db_pool, store, limit>>

\* The response (or the error) leaves the gateway and the slot is free again.
Return(r) ==
    /\ pc[r] \in {"done", "error"}
    /\ pc' = [pc EXCEPT ![r] = "idle"]
    /\ limit' = [limit EXCEPT ![r] = 1]
    /\ result' = [result EXCEPT ![r] = InitialResult]
    /\ obs' = [obs EXCEPT ![r] = NoObs]
    /\ UNCHANGED <<redis_client, db_pool, store, cache, written, prev>>

\* The TTL of an entry runs out.
Expire(k) ==
    /\ cache[k].present
    /\ cache' = [cache EXCEPT ![k] = NoEntry]
    /\ written' = [written EXCEPT ![k] = NoList]
    /\ prev' = IF prev.key = k THEN NoPrev ELSE prev
    /\ UNCHANGED <<redis_client, db_pool, store, pc, limit, result, obs>>

\* The inventory inserts or deletes rows.
StoreChange ==
    /\ \E s \in StoreStates : s # store /\ store' = s
    /\ prev' = NoPrev
    /\ UNCHANGED <<redis_client, db_pool, cache, pc, limit, result, obs, written>>

\* Another client of the same Redis writes under the products key of a
\* positive limit: a text that is no JSON, or an empty string.
ForeignKeys == {CacheKey(l) : l \in {m \in Limits : m > 0}}

ForeignCacheWrite(k) ==
    /\ redis_client
    /\ \E text \in {GarbageText, EmptyText} :
          cache' = [cache EXCEPT ![k] = Entry(text, 0)]
    /\ written' = [written EXCEPT ![k] = NoList]
    /\ prev' = IF prev.key = k THEN NoPrev ELSE prev
    /\ UNCHANGED <<redis_client, db_pool, store, pc, limit, result, obs>>

Next ==
    \/ \E r \in Requests : Start(r)
    \/ \E r \in Requests : StoreStep(r)
    \/ \E r \in Requests : Return(r)
    \/ \E k \in Keys : Expire(k)
    \/ StoreChange

Spec == Init /\ [][Next]_vars

\* The gateway next to another writer of the cache, over an unchanging table.
NextEnv ==
    \/ \E r \in Requests : Start(r)
    \/ \E r \in Requests : StoreStep(r)
    \/ \E r \in Requests : Return(r)
    \/ \E k \in Keys : Expire(k)
    \/ \E k \in ForeignKeys : ForeignCacheWrite(k)

SpecEnv == Init /\ [][NextEnv]_vars

\* ================================================================ claims
Sources == {"cache", "database", "mock"}

\* A record made by the mock generator, by its id and SKU.
IsMockRecord(rec) ==
    \E i \in 1..5 : rec.id = "mock-" \o ToString(i) \/ rec.sku = "MOCK-00" \o ToString(i)

\* What a store row must look like in a response: the id as text, the
\* price as a number, and the discounted price 90% of the price.
ExpectedRecord(p) ==
    [id |-> ToString(p.id), sku |-> p.sku, name |-> p.name,
     stock_level |-> p.stock_level, price |-> p.price,
     discounted_price |-> (p.price * 9) \div 10]

ExpectedList(rows) == [i \in 1..Len(rows) |-> ExpectedRecord(rows[i])]

Starts(r) == pc[r] = "idle" /\ pc'[r] # "idle"

Finishes(r) == pc[r] = "fetch" /\ pc'[r] # "fetch"

\* C1: a request with limit > 0 never ends in an error, whatever the cache
\* and the store do: it is waiting for the store or holds a result whose
\* source is cache, database or mock.
C1_NeverRaises ==
    \A r \in Requests :
        limit[r] > 0 =>
            /\ pc[r] \in {"idle", "fetch", "done"}
            /\ pc[r] = "done" => result[r].source \in Sources

\* C1 witness: a request with limit > 0 ended with mock data after its
\* write-back failed and the release of the connection failed.
C1_Witness ==
    \E r \in Requests :
        /\ pc[r] = "done" /\ limit[r] > 0
        /\ obs[r].fetched /\ ~obs[r].released /\ obs[r].write = "failed"
        /\ result[r].source = "mock"

\* C2: for limit > 0 the source of a result is cache, database or mock, and
\* a mock result holds exactly min(limit, 5) records.
C2_SourceAndMockCount ==
    \A r \in Requests :
        pc[r] = "done" /\ limit[r] > 0 =>
            /\ result[r].source \in Sources
            /\ result[r].source = "mock" =>
                  Len(result[r].products) = Min(limit[r], 5)

\* C2 witness: a request with a limit above 5 got exactly 5 mock records.
C2_Witness ==
    \E r \in Requests :
        /\ pc[r] = "done" /\ limit[r] > 5
        /\ result[r].source = "mock"
        /\ Len(result[r].products) = 5

C4_OnlyStoreRowsCached ==
    [][\A k \in Keys :
        (cache'[k] # cache[k] /\ cache'[k].present) =>
            /\ \E r \in Requests :
                /\ Finishes(r) /\ obs'[r].fetched
                /\ k = CacheKey(limit[r])
                /\ cache'[k].value =
                      json_dumps(ExpectedList(FetchRows(store, limit[r])))
            /\ cache'[k].value.kind = "array"
            /\ \A i \in DOMAIN cache'[k].value.items :
                  ~IsMockRecord(DecodeObject(cache'[k].value.items[i]))]_vars

\* C4 witness: a request ended with mock data while the cache holds an entry
\* under its key.
C4_Witness ==
    \E r \in Requests :
        /\ pc[r] = "done" /\ result[r].source = "mock"
        /\ result[r].products # <<>>
        /\ cache[CacheKey(limit[r])].present

\* C5: the records of a cache hit are the list most recently written under
\* the key of the request.
C5_HitReturnsLastWritten ==
    [][\A r \in Requests :
        (Starts(r) /\ result'[r].source = "cache") =>
            /\ written[CacheKey(limit'[r])].valid
            /\ result'[r].products = written[CacheKey(limit'[r])].products]_vars

\* C5 witness: a hit under the key of limit 1 returned the one record written
\* there.
C5_Witness ==
    \E r \in Requests :
        /\ pc[r] = "done" /\ limit[r] = 1
        /\ result[r].source = "cache"
        /\ written[CacheKey(1)].valid
        /\ result[r].products = written[CacheKey(1)].products
        /\ Len(result[r].products) = 1

\* C6: a request that reads a deserializable entry under its key returns its
\* records with source = cache and cached = true in that same step, without
\* going to the store, and leaves cache and store as they were.
C6_HitFrame ==
    [][\A r \in Requests :
        LET entry == cache[CacheKey(limit'[r])]
        IN  (/\ Starts(r)
             /\ redis_client
             /\ obs'[r].read # "error"
             /\ entry.present /\ entry.value.kind = "array")
            => /\ pc'[r] = "done"
               /\ result'[r] = [products |-> json_loads(entry.value),
                                source |-> "cache", cached |-> TRUE]
               /\ cache' = cache
               /\ store' = store]_vars

\* C6 witness: a request with the largest limit was answered from the cache
\* with every row of the table.
C6_Witness ==
    \E r \in Requests :
        /\ pc[r] = "done" /\ obs[r].read = "hit"
        /\ limit[r] = MaxLimit
        /\ result[r].cached
        /\ Len(result[r].products) = MaxRows

\* C7 as claimed: a request with limit <= 0 never enters the service: it
\* reads no cache, queries no store and holds no result.
C7_NonPositiveRejected ==
    \A r \in Requests : pc[r] # "idle" => limit[r] > 0

MissLike(r) ==
    IF db_pool
    THEN pc[r] = "fetch" /\ result[r] = InitialResult
    ELSE /\ pc[r] = "done"
         /\ result[r].source = "mock" /\ ~result[r].cached
         /\ Len(result[r].products) = Min(limit[r], 5)

\* C9: a request whose cache is unavailable, whose cache read fails or whose
\* cached value does not deserialize goes on as after a miss, and a request
\* that went to the store ends with source = database when the store step
\* succeeded and source = mock when it failed, never with source = cache.
C9_FailedReadIsMiss ==
    [][\A r \in Requests :
        LET entry == cache[CacheKey(limit'[r])]
        IN  /\ (/\ Starts(r)
                /\ limit'[r] > 0
                /\ \/ ~redis_client
                   \/ obs'[r].read = "error"
                   \/ entry.present /\ entry.value.kind = "garbage")
               => MissLike(r)'
            /\ (Finishes(r) /\ limit[r] > 0)
               => /\ pc'[r] = "done"
                  /\ result'[r].source =
                        IF obs'[r].fetched /\ obs'[r].released
                        THEN "database" ELSE "mock"]_vars

\* C9 witness: a request with limit > 0 read a value that does not
\* deserialize and is waiting for the store.
C9_Witness ==
    \E r \in Requests :
        /\ pc[r] = "fetch" /\ limit[r] > 0
        /\ obs[r].read = "corrupt"
        /\ result[r] = InitialResult

\* C10: in every result, cached is true exactly when the source is cache.
C10_CachedIffCache ==
    \A r \in Requests :
        pc[r] = "done" => (result[r].cached <=> result[r].source = "cache")

\* C10 witness: a request fetched rows, then the store step failed, and its
\* mock result says cached = false.
C10_Witness ==
    \E r \in Requests :
        /\ pc[r] = "done" /\ obs[r].fetched /\ ~obs[r].released
        /\ result[r].source = "mock" /\ ~result[r].cached
        /\ obs[r].write = "ok"

====
